---- MODULE Spec2Model ----
(***************************************************************************)
(* Model of the CleanLearn what-if analysis                                *)
(* (demo/feature_overview/clean_learn.py): plan generation                 *)
(* (generate_plans_to_try) and result aggregation (generate_final_report), *)
(* together with the collaborators they consume: the graph queries, the    *)
(* shared singleton (id counters, results mapping), the extraction-patch   *)
(* builder and the execution engine that fills the results mapping.        *)
(***************************************************************************)
EXTENDS Integers, Sequences, FiniteSets, TLC

VARIABLES
    dag,                                \* the recorded pipeline graph handed to the analysis
    column,                             \* self.column
    error,                              \* self.error
    cleanings,                          \* self.cleanings
    impute_constant,                    \* self.impute_constant
    score_nodes_and_linenos,            \* self._score_nodes_and_linenos
    next_op_id,                         \* singleton: next node id
    next_patch_id,                      \* singleton: next patch id
    labels_to_extracted_plan_results,   \* singleton.labels_to_extracted_plan_results
    op,                                 \* the last operation that ran
    pre_score_nodes_and_linenos,        \* self._score_nodes_and_linenos when the last call started
    extracted_plan_results,             \* argument of the last generate_final_report call
    raised,                             \* the failure the last call on the object surfaced, or "none"
    plans,                              \* value returned by the last generate_plans_to_try call
    report,                             \* value returned by the last generate_final_report call
    plans_generated                     \* generate_plans_to_try has returned plans on this object

vars == <<dag, column, error, cleanings, impute_constant, score_nodes_and_linenos,
          next_op_id, next_patch_id, labels_to_extracted_plan_results, op,
          pre_score_nodes_and_linenos, extracted_plan_results, raised,
          plans, report, plans_generated>>

-----------------------------------------------------------------------------
(* Bounds of the model *)

MaxNodes == 3
MaxCleanings == 2
MaxOpId == 7

-----------------------------------------------------------------------------
(* Enumerations *)

OUTLIER == "outliers"
FILTER == "filter"
IMPUTE == "impute"

\* An error kind and a cleaning method outside the supported ones.
MISSING_VALUES == "missing values"
DEDUPLICATE == "deduplicate"

ErrorKinds == {OUTLIER, MISSING_VALUES}
CleaningMethods == {FILTER, IMPUTE, DEDUPLICATE}

None == "None"
NoFailure == "none"

\* what a call that failed leaves in place of a table
NoTable == [corrupted_column |-> <<>>, error |-> <<>>, cleaning_method |-> <<>>,
            metric_columns |-> <<>>, metrics |-> <<>>]

-----------------------------------------------------------------------------
(* The pipeline graph *)

DagNode(node_id, code_location, operator_type, description, processing_func) ==
    [node_id |-> node_id, code_location |-> code_location, operator_type |-> operator_type,
     description |-> description, processing_func |-> processing_func]

BasicCodeLocation(caller_filename, lineno) == [caller_filename |-> caller_filename, lineno |-> lineno]

PredictNode == DagNode(1, BasicCodeLocation("pipeline.py", 40), "PREDICT", "predict", None)
AccuracyNode == DagNode(2, BasicCodeLocation("pipeline.py", 42), "SCORE", "accuracy", None)
\* a second, distinct SCORE node with the description and the source line of AccuracyNode
AccuracyNodeAgain == DagNode(3, BasicCodeLocation("pipeline.py", 42), "SCORE", "accuracy", None)
F1Node == DagNode(4, BasicCodeLocation("pipeline.py", 43), "SCORE", "f1", None)

NodePool == {PredictNode, AccuracyNode, AccuracyNodeAgain, F1Node}

FeatureColumnSets == {{"age", "income"}, {"income"}}

SeqsUpTo(S, n) == UNION {[1..k -> S] : k \in 0..n}

\* The graph's nodes in the order they were recorded: node ids are issued by a
\* monotonic counter as operators run, so ids never decrease along the order (and the
\* PREDICT node, which a SCORE operator consumes, precedes the SCORE nodes).
RecordedOrders ==
    {nodes \in SeqsUpTo(NodePool, MaxNodes) :
        \A i, j \in DOMAIN nodes : i < j => nodes[i].node_id <= nodes[j].node_id}

Dags == [nodes : RecordedOrders, feature_cols : FeatureColumnSets]

find_nodes_by_type(graph, operator_type) ==
    SelectSeq(graph.nodes, LAMBDA node : node.operator_type = operator_type)

get_columns_used_as_feature(graph) == graph.feature_cols

Range(s) == {s[i] : i \in DOMAIN s}

-----------------------------------------------------------------------------
(* String formatting *)

cleaning_result_label(col, cleaning) == "data-cleaning-" \o col \o "-" \o cleaning

line_label(prefix, lineno) == prefix \o "_L" \o ToString(lineno)

-----------------------------------------------------------------------------
(* The analysis object *)

analysis_id == <<column, error, impute_constant>> \o cleanings

Init ==
    /\ dag \in Dags
    /\ column = "age"
    /\ error \in ErrorKinds
    /\ cleanings \in SeqsUpTo(CleaningMethods, MaxCleanings)
    /\ impute_constant = 0
    /\ score_nodes_and_linenos = <<>>
    /\ next_op_id = 5
    /\ next_patch_id = 0
    /\ labels_to_extracted_plan_results = <<>>
    /\ op = "__init__"
    /\ pre_score_nodes_and_linenos = <<>>
    /\ extracted_plan_results = <<>>
    /\ raised = NoFailure
    /\ plans = <<>>
    /\ report = NoTable
    /\ plans_generated = FALSE

-----------------------------------------------------------------------------
(* Patches and synthetic nodes *)

OperatorContext(operator, function_info) == [operator |-> operator, function_info |-> function_info]

DagNodeDetails(description, columns) == [description |-> description, columns |-> columns]

SyntheticNode(node_id, code_location, operator_info, details, optional_code_info, processing_func) ==
    [node_id |-> node_id, code_location |-> code_location, operator_info |-> operator_info,
     details |-> details, optional_code_info |-> optional_code_info,
     processing_func |-> processing_func]

\* DataFiltering(patch_id, analysis, <training branch>, node, <evaluation branch>, columns read)
DataFiltering(patch_id, analysis, applies_to_train, filter_operator, applies_to_test, only_reads_column) ==
    [kind |-> "DataFiltering", patch_id |-> patch_id, analysis |-> analysis,
     applies_to_train |-> applies_to_train, node |-> filter_operator,
     applies_to_test |-> applies_to_test, only_reads_column |-> only_reads_column]

\* DataProjection(patch_id, analysis, <training branch>, node, <evaluation branch>, column written,
\*                columns read, index selection)
DataProjection(patch_id, analysis, applies_to_train, projection_operator, applies_to_test, modifies_column, only_reads_column, index_selection_func) ==
    [kind |-> "DataProjection", patch_id |-> patch_id, analysis |-> analysis,
     applies_to_train |-> applies_to_train, node |-> projection_operator,
     applies_to_test |-> applies_to_test, modifies_column |-> modifies_column,
     only_reads_column |-> only_reads_column, index_selection_func |-> index_selection_func]

\* One Extraction patch per (SCORE node, source line) pair, each with the next patch id,
\* storing the node's output under {label}_L{line} once executed.
get_intermediate_extraction_patch_after_score_nodes(patch_id, analysis, label, pairs) ==
    [i \in DOMAIN pairs |->
        [kind |-> "Extraction", patch_id |-> patch_id + i - 1, analysis |-> analysis,
         label |-> label, node_id |-> pairs[i][1].node_id, lineno |-> pairs[i][2],
         result_label |-> line_label(label, pairs[i][2])]]

-----------------------------------------------------------------------------
(* generate_plans_to_try *)

score_pairs(graph) ==
    LET score_operators == find_nodes_by_type(graph, "SCORE")
    IN  [i \in DOMAIN score_operators |->
            <<score_operators[i], score_operators[i].code_location.lineno>>]

required_cols(graph) ==
    LET feature_cols == get_columns_used_as_feature(graph)
    IN  IF column \in feature_cols THEN feature_cols ELSE {column}

filter_func == [func |-> "drop_outliers", column |-> column, outlier_func |-> "outlier_func"]

projection ==
    [func |-> "impute_outliers", column |-> column, constant |-> impute_constant,
     outlier_func |-> "outlier_func"]

new_test_cleaning_node(op_id) ==
    SyntheticNode(op_id, BasicCodeLocation("Data Cleaning", None),
                  OperatorContext("SELECTION", None),
                  DagNodeDetails("Clean " \o column \o ": filter", None), None, filter_func)

filter_patch_train(patch_id, graph, node) ==
    DataFiltering(patch_id, analysis_id, TRUE, node, FALSE, required_cols(graph))

new_projection_node(op_id) ==
    SyntheticNode(op_id, BasicCodeLocation("DataCorruption", None),
                  OperatorContext("PROJECTION_MODIFY", None),
                  DagNodeDetails("Clean " \o column \o ": impute", None), None, projection)

\* the flags the other way round: evaluation branch only
projection_patch_on_test_branch(patch_id, node) ==
    DataProjection(patch_id, analysis_id, FALSE, node, TRUE, column, <<column>>, None)

projection_patch(patch_id, node) ==
    DataProjection(patch_id, analysis_id, TRUE, node, FALSE, column, <<column>>, None)

\* the extraction patches are built but never added to the variant
patches_for_variant_without_extraction(extraction_nodes, patch) == <<patch>>

patches_for_variant(extraction_nodes, patch) == extraction_nodes \o <<patch>>

\* the variant is put in front of the ones built so far
prepend_patch_set(cleaning_patch_sets, variant) == <<variant>> \o cleaning_patch_sets

append_patch_set(cleaning_patch_sets, variant) == Append(cleaning_patch_sets, variant)

plans_outcome(failure, variants, pairs, op_id, patch_id) ==
    [raised |-> failure, plans |-> variants, score_nodes_and_linenos |-> pairs,
     next_op_id |-> op_id, next_patch_id |-> patch_id]

\* the loop stops at the unknown method and hands back what it has built so far
unknown_cleaning_returns_built(cleaning_patch_sets, pairs, op_id, patch_id) ==
    plans_outcome(NoFailure, cleaning_patch_sets, pairs, op_id, patch_id)

unknown_cleaning(cleaning_patch_sets, pairs, op_id, patch_id) ==
    plans_outcome("UnknownCleaningMethod", <<>>, pairs, op_id, patch_id)

RECURSIVE cleaning_loop(_, _, _, _, _, _)
cleaning_loop(graph, pairs, i, cleaning_patch_sets, op_id, patch_id) ==
    IF i > Len(cleanings)
    THEN plans_outcome(NoFailure, cleaning_patch_sets, pairs, op_id, patch_id)
    ELSE LET cleaning == cleanings[i]
             label == cleaning_result_label(column, cleaning)
             extraction_nodes ==
                 get_intermediate_extraction_patch_after_score_nodes(patch_id, analysis_id, label, pairs)
             pid == patch_id + Len(extraction_nodes)
         IN  IF cleaning = FILTER
             THEN cleaning_loop(graph, pairs, i + 1,
                      append_patch_set(cleaning_patch_sets,
                          patches_for_variant(extraction_nodes,
                              filter_patch_train(pid, graph, new_test_cleaning_node(op_id)))),
                      op_id + 1, pid + 1)
             ELSE IF cleaning = IMPUTE
             THEN cleaning_loop(graph, pairs, i + 1,
                      append_patch_set(cleaning_patch_sets,
                          patches_for_variant(extraction_nodes,
                              projection_patch(pid, new_projection_node(op_id)))),
                      op_id + 1, pid + 1)
             ELSE unknown_cleaning(cleaning_patch_sets, pairs, op_id, patch_id)

validated_pairs(graph, pairs) ==
    IF Len(pairs) # Cardinality(Range(pairs))
    THEN plans_outcome("AmbiguousScoreNodeIdentity", <<>>, pairs, next_op_id, next_patch_id)
    ELSE IF error # OUTLIER
    THEN plans_outcome("UnsupportedErrorKind", <<>>, pairs, next_op_id, next_patch_id)
    ELSE cleaning_loop(graph, pairs, 1, <<>>, next_op_id, next_patch_id)

generate_plans_to_try_outcome(graph) ==
    IF Len(find_nodes_by_type(graph, "PREDICT")) # 1
    THEN plans_outcome("MultiplePredictNodes", <<>>, score_nodes_and_linenos,
                       next_op_id, next_patch_id)
    ELSE validated_pairs(graph, score_pairs(graph))

generate_plans_to_try ==
    /\ next_op_id < MaxOpId
    /\ LET out == generate_plans_to_try_outcome(dag)
       IN  /\ score_nodes_and_linenos' = out.score_nodes_and_linenos
           /\ next_op_id' = out.next_op_id
           /\ next_patch_id' = out.next_patch_id
           /\ raised' = out.raised
           /\ plans' = out.plans
           /\ plans_generated' = (plans_generated \/ out.raised = NoFailure)
    /\ op' = "generate_plans_to_try"
    /\ pre_score_nodes_and_linenos' = score_nodes_and_linenos
    /\ extracted_plan_results' = <<>>
    /\ report' = NoTable
    /\ UNCHANGED <<dag, column, error, cleanings, impute_constant,
                   labels_to_extracted_plan_results>>

-----------------------------------------------------------------------------------------------------------------------------------------------------
(* The execution engine: runs the original pipeline and the plan variants, each as  *)
(* a run, and fills the shared results mapping. A run that does not happen, or     *)
(* that stops early, leaves its labels missing.                                     *)

\* the captured output of a SCORE node in the run that stores under the label
extracted_result(node_id, label) == [score_node |-> node_id, run |-> label]

store_result(results, label, value) ==
    [l \in DOMAIN results \cup {label} |-> IF l = label THEN value ELSE results[l]]

\* execute the Extraction patches of one run in order, up to the patch the run stops at
RECURSIVE execute_patches(_, _, _, _)
execute_patches(results, patches, j, last) ==
    IF j > last THEN results
    ELSE IF patches[j].kind = "Extraction"
    THEN execute_patches(
             store_result(results, patches[j].result_label,
                          extracted_result(patches[j].node_id, patches[j].result_label)),
             patches, j + 1, last)
    ELSE execute_patches(results, patches, j + 1, last)

\* the original pipeline stores each SCORE node's output under original_L{line}
original_patches ==
    [i \in DOMAIN score_nodes_and_linenos |->
        [kind |-> "Extraction", node_id |-> score_nodes_and_linenos[i][1].node_id,
         result_label |-> line_label("original", score_nodes_and_linenos[i][2])]]

execute_plan_variant ==
    /\ plans_generated
    /\ \E v \in DOMAIN plans : \E last \in DOMAIN plans[v] :
          labels_to_extracted_plan_results' =
              execute_patches(labels_to_extracted_plan_results, plans[v], 1, last)
    /\ labels_to_extracted_plan_results' # labels_to_extracted_plan_results
    /\ op' = "execute_plan_variant"
    /\ UNCHANGED <<dag, column, error, cleanings, impute_constant, score_nodes_and_linenos,
                   next_op_id, next_patch_id, pre_score_nodes_and_linenos,
                   extracted_plan_results, raised, plans, report, plans_generated>>

execute_original_pipeline ==
    /\ plans_generated
    /\ \E last \in DOMAIN original_patches :
          labels_to_extracted_plan_results' =
              execute_patches(labels_to_extracted_plan_results, original_patches, 1, last)
    /\ labels_to_extracted_plan_results' # labels_to_extracted_plan_results
    /\ op' = "execute_original_pipeline"
    /\ UNCHANGED <<dag, column, error, cleanings, impute_constant, score_nodes_and_linenos,
                   next_op_id, next_patch_id, pre_score_nodes_and_linenos,
                   extracted_plan_results, raised, plans, report, plans_generated>>

-----
(* generate_final_report *)

\* the mapping the report reads its cells from
results_read(extracted_plan_results_arg) == labels_to_extracted_plan_results

\* result_df_metrics: a dict, modelled by its keys in insertion order and its values
EmptyMetrics == [columns |-> <<>>, values |-> <<>>]

metrics_get(result_df_metrics, name) ==
    IF name \in DOMAIN result_df_metrics.values THEN result_df_metrics.values[name] ELSE <<>>

metrics_set(result_df_metrics, name, column_values) ==
    [columns |-> IF name \in DOMAIN result_df_metrics.values
                 THEN result_df_metrics.columns
                 ELSE Append(result_df_metrics.columns, name),
     values |-> [k \in DOMAIN result_df_metrics.values \cup {name} |->
                    IF k = name THEN column_values ELSE result_df_metrics.values[k]]]

score_description_and_linenos ==
    [i \in DOMAIN score_nodes_and_linenos |->
        <<score_nodes_and_linenos[i][1].description, score_nodes_and_linenos[i][2]>>]

metrics_outcome(failure, result_df_metrics) == [raised |-> failure, metrics |-> result_df_metrics]

\* results.get(label): an absent label yields None
lookup_result_or_none(results, label, result_df_metrics, name) ==
    metrics_outcome(NoFailure,
        metrics_set(result_df_metrics, name,
                    Append(metrics_get(result_df_metrics, name),
                           IF label \in DOMAIN results THEN results[label] ELSE None)))

\* results[label]; a label that is absent fails the call
lookup_result(results, label, result_df_metrics, name) ==
    IF label \in DOMAIN results
    THEN metrics_outcome(NoFailure,
             metrics_set(result_df_metrics, name,
                         Append(metrics_get(result_df_metrics, name), results[label])))
    ELSE metrics_outcome("MissingExtractedResult", result_df_metrics)

\* one pass over score_description_and_linenos, appending results[{prefix}_L{line}]
RECURSIVE append_metric_values(_, _, _, _)
append_metric_values(results, prefix, i, result_df_metrics) ==
    IF i > Len(score_description_and_linenos)
    THEN metrics_outcome(NoFailure, result_df_metrics)
    ELSE LET score_description == score_description_and_linenos[i][1]
             lineno == score_description_and_linenos[i][2]
             out == lookup_result(results, line_label(prefix, lineno), result_df_metrics,
                                  line_label(score_description, lineno))
         IN  IF out.raised # NoFailure THEN out
             ELSE append_metric_values(results, prefix, i + 1, out.metrics)

RECURSIVE cleaning_rows(_, _, _)
cleaning_rows(results, c, result_df_metrics) ==
    IF c > Len(cleanings)
    THEN metrics_outcome(NoFailure, result_df_metrics)
    ELSE LET out == append_metric_values(results, cleaning_result_label(column, cleanings[c]),
                                         1, result_df_metrics)
         IN  IF out.raised # NoFailure THEN out
             ELSE cleaning_rows(results, c + 1, out.metrics)

result_df_columns == <<None>> \o [c \in DOMAIN cleanings |-> column]
result_df_errors == <<None>> \o [c \in DOMAIN cleanings |-> error]
result_df_cleaning_methods == <<None>> \o [c \in DOMAIN cleanings |-> cleanings[c]]

report_outcome(failure, table) == [raised |-> failure, report |-> table]

\* pandas.DataFrame(dict of lists): all lists must have the same length
DataFrame(result_df_metrics) ==
    IF \E name \in DOMAIN result_df_metrics.values :
          Len(result_df_metrics.values[name]) # Len(result_df_columns)
    THEN report_outcome("ValueError", NoTable)
    ELSE report_outcome(NoFailure,
             [corrupted_column |-> result_df_columns, error |-> result_df_errors,
              cleaning_method |-> result_df_cleaning_methods,
              metric_columns |-> result_df_metrics.columns,
              metrics |-> result_df_metrics.values])

generate_final_report_outcome(extracted_plan_results_arg) ==
    LET results == results_read(extracted_plan_results_arg)
        baseline == append_metric_values(results, "original", 1, EmptyMetrics)
    IN  IF baseline.raised # NoFailure THEN report_outcome(baseline.raised, NoTable)
        ELSE LET rows == cleaning_rows(results, 1, baseline.metrics)
             IN  IF rows.raised # NoFailure THEN report_outcome(rows.raised, NoTable)
                 ELSE DataFrame(rows.metrics)

\* the mappings a caller hands to generate_final_report: the shared one, or one of its own
ResultArguments == {labels_to_extracted_plan_results, <<>>}

generate_final_report ==
    /\ \E extracted_plan_results_arg \in ResultArguments :
          LET out == generate_final_report_outcome(extracted_plan_results_arg)
          IN  /\ extracted_plan_results' = extracted_plan_results_arg
              /\ raised' = out.raised
              /\ report' = out.report
    /\ op' = "generate_final_report"
    /\ pre_score_nodes_and_linenos' = score_nodes_and_linenos
    /\ UNCHANGED <<dag, column, error, cleanings, impute_constant, score_nodes_and_linenos,
                   next_op_id, next_patch_id, labels_to_extracted_plan_results, plans,
                   plans_generated>>

Next ==
    \/ generate_plans_to_try
    \/ execute_plan_variant
    \/ execute_original_pipeline
    \/ generate_final_report

Spec == Init /\ [][Next]_vars

-----------------------------------------------------------------------------
(* Vocabulary of the properties *)

GraphNodeIndices(operator_type) ==
    {i \in DOMAIN dag.nodes : dag.nodes[i].operator_type = operator_type}

ExactlyOnePredictNode == Cardinality(GraphNodeIndices("PREDICT")) = 1

UniquelyKeyedScoreNodes ==
    \A i, j \in GraphNodeIndices("SCORE") : i # j => dag.nodes[i] # dag.nodes[j]

OnlyKnownCleanings == \A c \in DOMAIN cleanings : cleanings[c] \in {FILTER, IMPUTE}

GraphPassesValidation ==
    ExactlyOnePredictNode /\ UniquelyKeyedScoreNodes /\ error = OUTLIER

PlansCalled == op = "generate_plans_to_try"
ReportCalled == op = "generate_final_report"
Returned == raised = NoFailure

InterventionKind(cleaning) == IF cleaning = FILTER THEN "DataFiltering" ELSE "DataProjection"

IsIntervention(patch) == patch.kind \in {"DataFiltering", "DataProjection"}

ExtractionIndices(variant) == {j \in DOMAIN variant : variant[j].kind = "Extraction"}

PatchIds(variant) == {variant[j].patch_id : j \in DOMAIN variant}

\* the labels a report for the recorded SCORE lines and the requested methods reads
BaselineLabel(i) == "original_L" \o ToString(score_nodes_and_linenos[i][2])
CleaningLabel(c, i) ==
    "data-cleaning-" \o column \o "-" \o cleanings[c] \o "_L" \o ToString(score_nodes_and_linenos[i][2])
MetricColumn(i) ==
    score_nodes_and_linenos[i][1].description \o "_L" \o ToString(score_nodes_and_linenos[i][2])

RequiredLabels ==
    {BaselineLabel(i) : i \in DOMAIN score_nodes_and_linenos}
        \cup {CleaningLabel(c, i) : c \in DOMAIN cleanings, i \in DOMAIN score_nodes_and_linenos}

-----------------------------------------------------------------------------
(* Properties *)

\* C1: for a graph with exactly one PREDICT node and uniquely keyed SCORE nodes, error
\* kind OUTLIER and only FILTER/IMPUTE requested, generate_plans_to_try returns exactly
\* Len(cleanings) variants and the i-th variant is the one built for the i-th requested
\* method (its intervention patch and its label prefix are that method's).
C1_VariantsInRequestOrder ==
    (PlansCalled /\ GraphPassesValidation /\ OnlyKnownCleanings) =>
        /\ Returned
        /\ Len(plans) = Len(cleanings)
        /\ \A i \in DOMAIN plans :
              /\ Len(plans[i]) >= 1
              /\ plans[i][Len(plans[i])].kind = InterventionKind(cleanings[i])
              /\ \A j \in ExtractionIndices(plans[i]) :
                    plans[i][j].label = "data-cleaning-" \o column \o "-" \o cleanings[i]

C1_Witness ==
    /\ PlansCalled /\ Returned /\ GraphPassesValidation
    /\ cleanings = <<IMPUTE, FILTER>>
    /\ Len(plans) = 2
    /\ Cardinality(GraphNodeIndices("SCORE")) = 2

C1_WitnessDuplicateRequest ==
    PlansCalled /\ Returned /\ GraphPassesValidation /\ cleanings = <<FILTER, FILTER>>

\* C2: every returned variant consists of exactly one Extraction patch per SCORE node of
\* the graph, all bound to the label prefix data-cleaning-{column}-{method} of the
\* variant's method, followed by exactly one intervention patch of that method, and
\* nothing else; no patch of one variant appears in another variant.
C2_VariantContents ==
    (PlansCalled /\ Returned) =>
        /\ \A i \in DOMAIN plans :
              LET variant == plans[i]
                  n == Cardinality(GraphNodeIndices("SCORE"))
              IN  /\ Len(variant) = n + 1
                  /\ ExtractionIndices(variant) = 1..n
                  /\ \A k \in GraphNodeIndices("SCORE") :
                        Cardinality({j \in 1..n : variant[j].node_id = dag.nodes[k].node_id}) = 1
                  /\ \A j \in 1..n :
                        /\ variant[j].label = "data-cleaning-" \o column \o "-" \o cleanings[i]
                        /\ variant[j].result_label =
                              variant[j].label \o "_L" \o ToString(variant[j].lineno)
                  /\ variant[n + 1].kind = InterventionKind(cleanings[i])
                  /\ Cardinality(PatchIds(variant)) = Len(variant)
        /\ \A i, k \in DOMAIN plans : i # k => PatchIds(plans[i]) \cap PatchIds(plans[k]) = {}

C2_Witness ==
    /\ PlansCalled /\ Returned
    /\ Len(plans) >= 2
    /\ Cardinality(GraphNodeIndices("SCORE")) >= 2
    /\ \E j \in DOMAIN plans[1] : plans[1][j].kind = "Extraction"

\* C3: generate_plans_to_try never returns a partial result: when the PREDICT count is
\* not 1, two SCORE nodes share a key, the error kind is not OUTLIER, or some requested
\* method at any position is neither FILTER nor IMPUTE, the failure surfaces and no plan
\* variant is returned, also when variants for earlier methods had been built.
C3_NoPartialPlans ==
    /\ (PlansCalled /\ ~(GraphPassesValidation /\ OnlyKnownCleanings)) => ~Returned
    /\ (PlansCalled /\ ~Returned) => plans = <<>>

C3_Witness ==
    /\ PlansCalled
    /\ raised = "UnknownCleaningMethod"
    /\ Len(cleanings) = 2 /\ cleanings[1] = FILTER /\ cleanings[2] = DEDUPLICATE
    /\ next_op_id > 5
    /\ plans = <<>>

C5_CellsFromGivenResults ==
    (ReportCalled /\ Returned) =>
        /\ Len(report.corrupted_column) = 1 + Len(cleanings)
        /\ report.corrupted_column[1] = None
        /\ report.error[1] = None
        /\ report.cleaning_method[1] = None
        /\ \A c \in DOMAIN cleanings :
              /\ report.corrupted_column[c + 1] = column
              /\ report.error[c + 1] = error
              /\ report.cleaning_method[c + 1] = cleanings[c]
        /\ \A i \in DOMAIN score_nodes_and_linenos :
              /\ BaselineLabel(i) \in DOMAIN extracted_plan_results
              /\ report.metrics[MetricColumn(i)][1] = extracted_plan_results[BaselineLabel(i)]
              /\ \A c \in DOMAIN cleanings :
                    /\ CleaningLabel(c, i) \in DOMAIN extracted_plan_results
                    /\ report.metrics[MetricColumn(i)][c + 1] =
                          extracted_plan_results[CleaningLabel(c, i)]

\* C6: if a label the report requires (original_L{line}, or
\* data-cleaning-{column}-{method}_L{line} for a requested method) is absent from the
\* results mapping, generate_final_report fails with MissingExtractedResult, puts no
\* default in the cell's place and returns no table.
C6_MissingLabelFails ==
    (ReportCalled /\ RequiredLabels \ DOMAIN labels_to_extracted_plan_results # {}) =>
        /\ raised = "MissingExtractedResult"
        /\ report = NoTable

C6_Witness ==
    /\ ReportCalled
    /\ raised = "MissingExtractedResult"
    /\ Len(cleanings) = 2
    /\ \E i \in DOMAIN score_nodes_and_linenos :
          /\ BaselineLabel(i) \in DOMAIN labels_to_extracted_plan_results
          /\ CleaningLabel(1, i) \in DOMAIN labels_to_extracted_plan_results
          /\ CleaningLabel(2, i) \notin DOMAIN labels_to_extracted_plan_results

\* C7: a report is produced only after plans were successfully generated on the object
\* and the results mapping was populated for them.
C7_ReportOnlyAfterPlans ==
    (ReportCalled /\ Returned) =>
        (plans_generated /\ RequiredLabels \subseteq DOMAIN labels_to_extracted_plan_results)

\* C8: every synthetic node of a returned plan, for FILTER and IMPUTE alike, carries a
\* fresh id, the code-location tag "Data Cleaning", the operator kind SELECTION (filter)
\* or PROJECTION_MODIFY (impute), the description "Clean {column}: {method}" and the
\* bound transform.
C8_SyntheticNodeFields ==
    (PlansCalled /\ Returned) =>
        \A i \in DOMAIN plans :
            LET node == plans[i][Len(plans[i])].node
            IN  /\ node.node_id \notin {dag.nodes[k].node_id : k \in DOMAIN dag.nodes}
                /\ \A k \in DOMAIN plans :
                      k # i => plans[k][Len(plans[k])].node.node_id # node.node_id
                /\ node.code_location.caller_filename = "Data Cleaning"
                /\ node.operator_info.operator =
                      (IF cleanings[i] = FILTER THEN "SELECTION" ELSE "PROJECTION_MODIFY")
                /\ node.details.description = "Clean " \o column \o ": " \o cleanings[i]
                /\ node.processing_func.func =
                      (IF cleanings[i] = FILTER THEN "drop_outliers" ELSE "impute_outliers")
                /\ node.processing_func.column = column

\* C9: a generate_plans_to_try call that fails validation leaves the analysis object as
\* it was, its recorded (SCORE node, source line) pairs included.
C9_ValidationHasNoSideEffects ==
    (PlansCalled /\ raised \in {"MultiplePredictNodes", "AmbiguousScoreNodeIdentity",
                                "UnsupportedErrorKind"}) =>
        score_nodes_and_linenos = pre_score_nodes_and_linenos

\* C10: for a graph that passed validation and a fully populated results mapping, the
\* report has one metric column per distinct (score description, source line) pair and
\* every metric column holds 1 + Len(cleanings) values, as the metadata columns do.
C10_WellFormedTable ==
    (/\ ReportCalled
     /\ plans_generated /\ GraphPassesValidation /\ OnlyKnownCleanings
     /\ RequiredLabels \subseteq DOMAIN labels_to_extracted_plan_results) =>
        /\ Returned
        /\ Cardinality(Range(report.metric_columns)) = Len(report.metric_columns)
        /\ Range(report.metric_columns) = {MetricColumn(i) : i \in DOMAIN score_nodes_and_linenos}
        /\ \A name \in Range(report.metric_columns) :
              Len(report.metrics[name]) = 1 + Len(cleanings)

====
